---- MODULE Spec2Model ----
(***************************************************************************)
(* A model of src/ml_api.py: the wandering-risk engine (normalisers,       *)
(* weight adapter, feedback corrector, boosters, risk aggregator, state    *)
(* updaters, classifier) and the /predict handler that runs it against the *)
(* external patient store.                                                 *)
(*                                                                         *)
(* Numbers.  Python floats are modelled by exact integers and fractions:   *)
(*   weights      integers in thousandths (0.4 is 400), the precision      *)
(*                normalize_weights rounds to; update_weights works in     *)
(*                units of 1e-5 before it normalises;                      *)
(*   risk, boosts integers in hundredths (0.15 is 15);                     *)
(*   distance     whole metres, time_outside whole units (int() in the     *)
(*                handler), speed and avgSpeed in tenths;                  *)
(*   avgSpeed and the normalised features are fractions <<num, den>>.      *)
(* round(x, k) returns the nearest k-decimal value; where x lies exactly   *)
(* half way, the binary float decides, so both neighbours are possible     *)
(* outcomes: every operator that rounds returns the SET of its outcomes.   *)
(* The same holds for a float comparison at exact equality (the 0.3 trend  *)
(* threshold).                                                             *)
(***************************************************************************)
EXTENDS Integers, Sequences, FiniteSets, TLC

\* ------------------------------------------------------------ arithmetic

Abs(x) == IF x < 0 THEN -x ELSE x

Max(a, b) == IF a >= b THEN a ELSE b

Min(a, b) == IF a <= b THEN a ELSE b

RECURSIVE GCD(_, _)
GCD(a, b) == IF b = 0 THEN Abs(a) ELSE GCD(b, a % b)

\* The fraction n/d (d > 0) in lowest terms.
Frac(n, d) ==
    LET g == GCD(Abs(n), d)
    IN  IF g = 0 THEN <<0, 1>> ELSE <<n \div g, d \div g>>

\* min(q, 1.0) of a fraction q.
MinOne(q) == IF q[1] >= q[2] THEN <<1, 1>> ELSE q

\* The integers nearest to n/d (d > 0): one, or two when n/d is a half.
RoundDiv(n, d) ==
    LET q == n \div d
        r == n - q * d
    IN  IF 2 * r < d THEN {q}
        ELSE IF 2 * r > d THEN {q + 1}
        ELSE {q, q + 1}

\* ------------------------------------------------------------ normalisation

normalize_distance(distance, safe_radius) ==
    IF safe_radius <= 0 THEN <<0, 1>>
    ELSE MinOne(Frac(distance, safe_radius * 2))

\* 30 minutes -> full risk
normalize_time(time_outside) == MinOne(Frac(time_outside, 30))

\* speed / (avg_speed * 1.5), speed in tenths, avg_speed a fraction of tenths
normalize_speed(speed, avg_speed) ==
    IF avg_speed[1] <= 0 THEN <<0, 1>>
    ELSE MinOne(Frac(speed * avg_speed[2] * 2, avg_speed[1] * 3))

\* ------------------------------------------------------------ learning

update_learning_unweighted(old_avg, new_value, count) ==
    Frac(old_avg[1] + new_value * old_avg[2], old_avg[2] * (count + 1))

update_learning(old_avg, new_value, count) ==
    Frac(old_avg[1] * count + new_value * old_avg[2], old_avg[2] * (count + 1))

\* ------------------------------------------------------------ weights

DefaultWeights == [distance |-> 400, time |-> 400, speed |-> 200]

\* round(v / total, 3), in thousandths
Round3(v, total) == RoundDiv(v * 1000, total)

normalize_weights(weights) ==
    LET total == weights.distance + weights.time + weights.speed
    IN  IF total <= 0 THEN {DefaultWeights}
        ELSE {[distance |-> d, time |-> t, speed |-> s] :
                d \in Round3(weights.distance, total),
                t \in Round3(weights.time, total),
                s \in Round3(weights.speed, total)}

\* lr = 0.015, in units of 1e-5
lr == 1500

\* floor to avoid collapse: 0.05, in units of 1e-5
WeightFloor == 5000

\* weights in thousandths; the nudged weights in units of 1e-5, where
\* lr * (distance / 10), lr * (time_outside / 10) and lr * (speed / 2), speed
\* in tenths, are whole numbers.
update_weights(weights, distance, time_outside, speed) ==
    LET d == weights.distance * 100 + (lr * distance) \div 10
        t == weights.time * 100 + (lr * time_outside) \div 10
        s == weights.speed * 100 + (lr * speed) \div 20
    IN  normalize_weights([distance |-> Max(d, WeightFloor),
                           time |-> Max(t, WeightFloor),
                           speed |-> Max(s, WeightFloor)])

\* ------------------------------------------------------------ context

night_time_boost(hour) == IF hour >= 22 \/ hour < 5 THEN 15 ELSE 0

context_boost(battery, is_raining, light_level) ==
    (IF battery <= 20 THEN 10 ELSE 0)
    + (IF is_raining THEN 10 ELSE 0)
    + (IF light_level = "low" THEN 8 ELSE 0)

\* ------------------------------------------------------------ dictionaries
\* A Python dict is the sequence of its <<key, value>> items in insertion
\* order.

Keys(m) == {m[i][1] : i \in 1..Len(m)}

Get(m, key, default) ==
    IF key \in Keys(m)
    THEN LET i == CHOOSE j \in 1..Len(m) : m[j][1] = key IN m[i][2]
    ELSE default

\* m[key] = value: an existing key keeps its place, a new key goes last.
Put(m, key, value) ==
    IF key \in Keys(m)
    THEN [i \in 1..Len(m) |-> IF m[i][1] = key THEN <<key, value>> ELSE m[i]]
    ELSE Append(m, <<key, value>>)

\* list(m.items())[-n:]
LastItems(m, n) ==
    IF Len(m) <= n THEN m ELSE SubSeq(m, Len(m) - n + 1, Len(m))

\* ------------------------------------------------------------ trend

HistoryCap == 5

\* delta = current - last; delta > 0.3.  current is the base risk as a mixed
\* number (see Base), last a risk in hundredths.  At exact equality the float
\* subtraction decides: both outcomes.
TrendOf(last, current) ==
    LET bound == (last + 30) * 10
    IN  IF current.q > bound \/ (current.q = bound /\ current.f > 0) THEN {15}
        ELSE IF current.q = bound /\ current.f = 0 THEN {0, 15}
        ELSE {0}

risk_trend_boost_oldest(history, current) ==
    IF Len(history) < 2 THEN {0} ELSE TrendOf(history[1][2], current)

risk_trend_boost(history, current) ==
    IF Len(history) < 2 THEN {0}
    ELSE TrendOf(history[Len(history)][2], current)

update_risk_history_first(history, now, risk) ==
    LET h == Put(history, now, risk)
    IN  IF Len(h) <= HistoryCap THEN h ELSE SubSeq(h, 1, HistoryCap)

update_risk_history(history, now, risk) ==
    LastItems(Put(history, now, risk), HistoryCap)

\* ------------------------------------------------------------ zone

\* round(lat, 3) and round(lon, 3); lat and lon in units of 1e-4 degree, the
\* key's parts in units of 1e-3 degree.
get_zone_key(lat, lon) ==
    {<<a, o>> : a \in RoundDiv(lat, 10), o \in RoundDiv(lon, 10)}

ZoneCap == 50

update_zone_heatmap(zone_map, key) ==
    LastItems(Put(zone_map, key, Get(zone_map, key, 0) + 1), ZoneCap)

zone_risk_boost_unseen_zero(zone_map, key) ==
    IF Len(zone_map) = 0 \/ key \notin Keys(zone_map) THEN 0
    ELSE Min(Get(zone_map, key, 0), 15)

zone_risk_boost(zone_map, key) ==
    IF Len(zone_map) = 0 \/ key \notin Keys(zone_map) THEN 5
    ELSE Min(Get(zone_map, key, 0), 15)

\* ------------------------------------------------------------ feedback

\* adjust = 0.05, in thousandths
FeedbackAdjust == 50

\* The weights apply_feedback returns (its PATCH is the handler's
\* ClearFeedback step).
apply_feedback(weights, feedback) ==
    normalize_weights(
        IF feedback = "false_alarm"
        THEN [weights EXCEPT !.distance = @ - FeedbackAdjust,
                             !.time = @ - FeedbackAdjust]
        ELSE IF feedback = "correct_alert"
        THEN [weights EXCEPT !.distance = @ + FeedbackAdjust,
                             !.time = @ + FeedbackAdjust]
        ELSE weights)

\* ------------------------------------------------------------ risk core

\* The weighted sum of the three normalised features, in thousandths, as the
\* mixed number q + f/d with 0 <= f < d: each product weight * n/m is split
\* into its whole part and its remainder over m.
Base(weights, nd, nt, ns) ==
    LET pd == weights.distance * nd[1]
        pt == weights.time * nt[1]
        ps == weights.speed * ns[1]
        qd == pd \div nd[2]
        qt == pt \div nt[2]
        qs == ps \div ns[2]
        d  == nd[2] * nt[2] * ns[2]
        f  == (pd - qd * nd[2]) * nt[2] * ns[2]
              + (pt - qt * nt[2]) * nd[2] * ns[2]
              + (ps - qs * ns[2]) * nd[2] * nt[2]
    IN  [q |-> qd + qt + qs + f \div d, f |-> f % d, d |-> d]

\* round(min(total, 1.0), 2) in hundredths; total = q + f/d thousandths.
RoundRisk(total) ==
    IF total.q >= 1000 THEN {100}
    ELSE LET h == total.q \div 10
             r == total.q - h * 10
         IN  IF r < 5 THEN {h}
             ELSE IF r > 5 \/ total.f > 0 THEN {h + 1}
             ELSE {h, h + 1}

\* The outcomes of calculate_risk with the base and the trend boost each
\* rests on.
RiskParts(distance, time_outside, speed, safe_radius, avg_speed, weights, battery, is_raining, light_level, history, zone_map, zone_key, hour) ==
    LET nd == normalize_distance(distance, safe_radius)
        nt == normalize_time(time_outside)
        ns == normalize_speed(speed, avg_speed)
        base == Base(weights, nd, nt, ns)
        fixed == night_time_boost(hour)
                 + context_boost(battery, is_raining, light_level)
                 + zone_risk_boost(zone_map, zone_key)
    IN  UNION {{[base |-> base, trend |-> tb, risk |-> risk] :
                  risk \in RoundRisk([base EXCEPT !.q = @ + (fixed + tb) * 10])} :
                 tb \in risk_trend_boost(history, base)}

calculate_risk(distance, time_outside, speed, safe_radius, avg_speed, weights, battery, is_raining, light_level, history, zone_map, zone_key, hour) ==
    {part.risk : part \in RiskParts(distance, time_outside, speed,
                   safe_radius, avg_speed, weights, battery, is_raining,
                   light_level, history, zone_map, zone_key, hour)}

\* ------------------------------------------------------------ classifier

Classify(risk) ==
    IF risk > 80 THEN "alert" ELSE IF risk > 60 THEN "warning" ELSE "normal"

should_send_alert_any(prev, new) == new = "alert"

should_send_alert(prev, new) == prev # "alert" /\ new = "alert"

\* ------------------------------------------------------------ bounds

\* Requests received in one behaviour.
MaxRequests == 2

\* Handler threads serving requests at the same time.
NumHandlers == 2

\* ------------------------------------------------------------ state

VARIABLES
    store,       \* the patient's record in the external store: <<>> or <<record>>
    alerts,      \* the store's alerts collection (POST /alerts.json)
    slot,        \* each handler thread's request, from receipt to response
    now,         \* time.time() as last read, in half seconds
    started,     \* requests received so far
    completed,   \* requests that returned a computed verdict
    persisted,   \* requests that PATCHed the learning state
    sumSpeed,    \* sum of the speeds of the persisted requests (tenths)
    overlapped,  \* a request fetched while another was between fetch and persist
    applied,     \* feedback labels apply_feedback has already applied
    samples0,    \* the samples count of the initial record
    fresh,       \* the initial record had no learning state
    hist,        \* SpecMaps: a risk history
    zmap,        \* SpecMaps: a zone heatmap
    wrote,       \* SpecMaps: the last call, its key and the map before it
    calc         \* SpecRisk: one calculate_risk call, inputs and results

vars == <<store, alerts, slot, now, started, completed, persisted, sumSpeed,
          overlapped, applied, samples0, fresh, hist, zmap, wrote, calc>>

mapVars == <<hist, zmap, wrote>>

\* An optional value (a JSON key that may be missing or null): <<>> or <<v>>.
OrElse(opt, default) == IF opt = <<>> THEN default ELSE opt[1]

Handlers == 1..NumHandlers

Hours == {12, 23}

PrevLevels == {"none", "normal", "warning", "alert"}

\* ------------------------------------------------------------ inputs

Sample(distance, time_outside, speed, lat, lon, battery, rain, light, fb) ==
    [distance |-> distance, time_outside |-> time_outside, speed |-> speed,
     latitude |-> lat, longitude |-> lon, battery |-> battery,
     isRaining |-> rain, lightLevel |-> light, feedback |-> fb]

\* The telemetry of the requests: at rest at home; the walk of the spec's
\* end-to-end scenario; a short outing in rain and bad light; a burst of speed
\* reported with a false_alarm label; the walk confirmed as a correct_alert.
Telemetry ==
    { Sample(0, 0, 0, 125001, 775004, 100, FALSE, "normal", "none"),
      Sample(250, 600, 12, 125012, 775004, 100, FALSE, "normal", "none"),
      Sample(3, 15, 10, 125004, 775004, 15, TRUE, "low", "none"),
      Sample(0, 30, 20000, 125012, 775004, 100, FALSE, "normal", "false_alarm"),
      Sample(250, 600, 12, 125012, 775004, 100, FALSE, "normal", "correct_alert") }

NoSample == Sample(0, 0, 0, 0, 0, 0, FALSE, "", "none")

Learning(avg, samples, weights, updated) ==
    [avgSpeed |-> avg, samples |-> samples, weights |-> weights,
     lastUpdated |-> updated]

learning_patch_same_count(avg_speed, speed, samples, weights, seconds) ==
    Learning(update_learning(avg_speed, speed, samples), samples, weights,
             seconds)

\* The "learning" object of predict's PATCH.
learning_patch(avg_speed, speed, samples, weights, seconds) ==
    Learning(update_learning(avg_speed, speed, samples), samples + 1, weights,
             seconds)

\* A patient the caretaker has just registered, and one the service has
\* followed for a while.
InitialRecords ==
    { [learning |-> <<>>, safeRadius |-> <<200>>, zoneHeatmap |-> <<>>,
       riskHistory |-> <<>>, lastFeedback |-> <<>>, riskScore |-> <<>>,
       fcmToken |-> TRUE, children |-> <<>>],
      [learning |-> <<Learning(<<10, 1>>, 4,
                               [distance |-> 500, time |-> 300,
                                speed |-> 200], 0)>>,
       safeRadius |-> <<>>,
       zoneHeatmap |-> << <<<<12500, 77500>>, 3>> >>,
       riskHistory |-> << <<0, 12>>, <<1, 20>> >>,
       lastFeedback |-> <<"false_alarm">>, riskScore |-> <<20>>,
       fcmToken |-> FALSE, children |-> <<>>] }

\* ------------------------------------------------------------ handler

\* A handler thread: where it is in predict (pc), the locals of predict it has
\* set, the store writes and the push it has made, and its response once it
\* has one.
Idle ==
    [pc |-> "idle", payload |-> NoSample,
     avg_speed |-> <<0, 1>>, samples |-> 0, safe_radius |-> 0,
     history |-> <<>>, zone_key |-> <<0, 0>>, zone_map |-> <<>>,
     nudged |-> DefaultWeights, weights |-> DefaultWeights,
     token |-> FALSE, replay |-> FALSE, risk |-> 0, level |-> "normal",
     writes |-> 0, pushed |-> FALSE,
     outcome |-> "", cause |-> "", prev |-> "none", triggerAlert |-> <<>>]

\* jsonify({"riskScore": 0, "riskLevel": "normal"})
DefaultVerdict(cause) ==
    [Idle EXCEPT !.pc = "responded", !.outcome = "default", !.cause = cause]

\* An exception leaves predict: the client gets a 500 and no verdict.
ServerError(cause) ==
    [Idle EXCEPT !.pc = "responded", !.outcome = "error", !.cause = cause]

\* A request goes to the first free handler thread.
Free(h) ==
    /\ started < MaxRequests
    /\ slot[h].pc = "idle"
    /\ \A g \in Handlers : g < h => slot[g].pc # "idle"

InFlight(h) == slot[h].pc \in {"fetched", "adjusted"}

\* predict, lines 203-209: the body is no JSON object, or has no patientId.
RejectPayload(h) ==
    /\ Free(h)
    /\ \E cause \in {"not a dict", "no patientId"} :
          slot' = [slot EXCEPT ![h] = DefaultVerdict(cause)]
    /\ started' = started + 1
    /\ UNCHANGED <<store, alerts, now, completed, persisted, sumSpeed,
                   overlapped, applied, samples0, fresh, mapVars, calc>>

\* predict, lines 211-217: float() or int() of a field that is no number
\* raises ValueError, which nothing catches.
ParseError(h) ==
    /\ Free(h)
    /\ slot' = [slot EXCEPT ![h] = ServerError("field is not a number")]
    /\ started' = started + 1
    /\ UNCHANGED <<store, alerts, now, completed, persisted, sumSpeed,
                   overlapped, applied, samples0, fresh, mapVars, calc>>

\* predict, lines 222-225: requests.get raises (connection refused, timeout)
\* outside the try block.
FetchUnreachable(h) ==
    /\ Free(h)
    /\ slot' = [slot EXCEPT ![h] = ServerError("store unreachable")]
    /\ started' = started + 1
    /\ UNCHANGED <<store, alerts, now, completed, persisted, sumSpeed,
                   overlapped, applied, samples0, fresh, mapVars, calc>>

\* predict, lines 227-233: no patient from the response.
FetchNoPatient(h) ==
    /\ Free(h)
    /\ \E cause \in {"absent", "non-200", "unparsable"} :
          /\ cause = "absent" => store = <<>>
          /\ slot' = [slot EXCEPT ![h] = DefaultVerdict(cause)]
    /\ started' = started + 1
    /\ UNCHANGED <<store, alerts, now, completed, persisted, sumSpeed,
                   overlapped, applied, samples0, fresh, mapVars, calc>>

\* predict, lines 211-250: the fields of the payload, the GET of the record,
\* and the state computed from it up to the nudged weights.
Fetch(h) ==
    /\ Free(h)
    /\ store # <<>>
    /\ \E p \in Telemetry :
         LET patient == store[1]
             stored == IF patient.learning = <<>> THEN DefaultWeights
                       ELSE patient.learning[1].weights
         IN  \E w0 \in normalize_weights(stored),
                zk \in get_zone_key(p.latitude, p.longitude) :
               \E w1 \in update_weights(w0, p.distance, p.time_outside, p.speed) :
                 slot' = [slot EXCEPT ![h] =
                   [Idle EXCEPT
                      !.pc = "fetched",
                      !.payload = p,
                      !.avg_speed = IF patient.learning = <<>>
                                    THEN <<Max(p.speed, 1), 1>>
                                    ELSE patient.learning[1].avgSpeed,
                      !.samples = IF patient.learning = <<>> THEN 0
                                  ELSE patient.learning[1].samples,
                      !.safe_radius = Max(OrElse(patient.safeRadius, 5), 1),
                      !.history = patient.riskHistory,
                      !.zone_key = zk,
                      !.zone_map = update_zone_heatmap(patient.zoneHeatmap, zk),
                      !.nudged = w1,
                      !.weights = w1,
                      !.token = patient.fcmToken,
                      !.replay = p.feedback \in applied]]
    /\ started' = started + 1
    /\ overlapped' = (overlapped \/ \E g \in Handlers : InFlight(g))
    /\ UNCHANGED <<store, alerts, now, completed, persisted, sumSpeed,
                   applied, samples0, fresh, mapVars, calc>>

\* predict, lines 252-253, and apply_feedback: the corrected weights and the
\* PATCH that clears the record's feedback flag.
ClearFeedback(h) ==
    /\ slot[h].pc = "fetched"
    /\ slot[h].payload.feedback # "none"
    /\ \E w \in apply_feedback(slot[h].weights, slot[h].payload.feedback) :
          slot' = [slot EXCEPT ![h].pc = "adjusted", ![h].weights = w,
                               ![h].writes = @ + 1]
    /\ store' = <<[store[1] EXCEPT !.lastFeedback = <<>>]>>
    /\ applied' = applied \cup {slot[h].payload.feedback}
    /\ UNCHANGED <<alerts, now, started, completed, persisted, sumSpeed,
                   overlapped, samples0, fresh, mapVars, calc>>

\* predict, lines 255-282: the risk, the new history, the level, and the PATCH
\* of the learning state.  The clock has moved on by half a second since it
\* was last read.  Of predict's locals only risk, level and patient (its
\* fcmToken) are read after the PATCH.
Persist(h) ==
    /\ \/ slot[h].pc = "adjusted"
       \/ slot[h].pc = "fetched" /\ slot[h].payload.feedback = "none"
    /\ now' = now + 1
    /\ \E hour \in Hours :
         LET r == slot[h]
             p == r.payload
             seconds == now' \div 2
         IN  \E risk \in calculate_risk(p.distance, p.time_outside, p.speed,
                           r.safe_radius, r.avg_speed, r.weights, p.battery,
                           p.isRaining, p.lightLevel, r.history, r.zone_map,
                           r.zone_key, hour) :
               /\ slot' = [slot EXCEPT ![h] =
                     [Idle EXCEPT !.pc = "persisted",
                                  !.risk = risk,
                                  !.level = Classify(risk),
                                  !.token = r.token,
                                  !.writes = r.writes + 1]]
               /\ store' = <<[store[1] EXCEPT
                     !.learning = <<learning_patch(r.avg_speed, p.speed,
                                       r.samples, r.weights, seconds)>>,
                     !.zoneHeatmap = r.zone_map,
                     !.riskHistory = update_risk_history(r.history, seconds, risk),
                     !.riskScore = <<risk>>]>>
    /\ persisted' = persisted + 1
    /\ sumSpeed' = sumSpeed + slot[h].payload.speed
    /\ UNCHANGED <<alerts, started, completed, overlapped, applied, samples0,
                   fresh, mapVars, calc>>

\* predict, lines 284-327: the push, the alert record on a transition into
\* alert, and the response.  The payload's prevRiskLevel is read only here
\* (lines 292 and 325).
Respond(h) ==
    /\ slot[h].pc = "persisted"
    /\ \E prev \in PrevLevels :
         LET r == slot[h]
             fire == r.level = "alert" /\ should_send_alert(prev, r.level)
         IN  /\ alerts' = IF fire
                          THEN Append(alerts,
                                 [riskScore |-> r.risk, riskLevel |-> r.level,
                                  timestamp |-> now * 500, active |-> TRUE,
                                  acknowledged |-> FALSE])
                          ELSE alerts
             /\ store' = IF fire
                         THEN <<[store[1] EXCEPT
                                   !.children = Append(@, [riskScore |-> r.risk])]>>
                         ELSE store
             /\ slot' = [slot EXCEPT
                   ![h].pc = "responded",
                   ![h].outcome = "verdict",
                   ![h].prev = prev,
                   ![h].triggerAlert = <<should_send_alert(prev, r.level)>>,
                   ![h].writes = @ + (IF fire THEN 2 ELSE 0),
                   ![h].pushed = (r.level = "alert" /\ r.token)]
             /\ completed' = completed + 1
    /\ UNCHANGED <<now, started, persisted, sumSpeed, overlapped, applied,
                   samples0, fresh, mapVars, calc>>

\* The response is sent and the thread is free for the next request.
Return(h) ==
    /\ slot[h].pc = "responded"
    /\ slot' = [slot EXCEPT ![h] = Idle]
    /\ UNCHANGED <<store, alerts, now, started, completed, persisted,
                   sumSpeed, overlapped, applied, samples0, fresh, mapVars,
                   calc>>

\* No request is ever received (the specifications of the pure functions).
NoRequests ==
    /\ store = <<>>
    /\ alerts = <<>>
    /\ slot = [h \in Handlers |-> Idle]
    /\ started = 0
    /\ completed = 0
    /\ persisted = 0
    /\ sumSpeed = 0
    /\ overlapped = FALSE
    /\ applied = {}
    /\ samples0 = 0
    /\ fresh = FALSE

handlerVars == <<store, alerts, slot, started, completed, persisted,
                 sumSpeed, overlapped, applied, samples0, fresh>>

NoMaps == /\ hist = <<>>
          /\ zmap = <<>>
          /\ wrote = [op |-> "none", key |-> 0, value |-> 0, before |-> <<>>,
                    calls |-> 0]

NoCalc == calc = <<>>

Init ==
    /\ store \in {<<>>} \cup {<<rec>> : rec \in InitialRecords}
    /\ alerts = <<>>
    /\ slot = [h \in Handlers |-> Idle]
    /\ now = 2
    /\ started = 0
    /\ completed = 0
    /\ persisted = 0
    /\ sumSpeed = 0
    /\ overlapped = FALSE
    /\ applied = {}
    /\ samples0 = IF store = <<>> \/ store[1].learning = <<>> THEN 0
                  ELSE store[1].learning[1].samples
    /\ fresh = (store # <<>> /\ store[1].learning = <<>>)
    /\ NoMaps
    /\ NoCalc

\* No response is waiting to be sent: a thread that has its response returns
\* before any thread takes another step.
Quiet == \A g \in Handlers : slot[g].pc # "responded"

Next ==
    \E h \in Handlers :
       \/ Quiet /\ RejectPayload(h)
       \/ Quiet /\ ParseError(h)
       \/ Quiet /\ FetchUnreachable(h)
       \/ Quiet /\ FetchNoPatient(h)
       \/ Quiet /\ Fetch(h)
       \/ Quiet /\ ClearFeedback(h)
       \/ Quiet /\ Persist(h)
       \/ Quiet /\ Respond(h)
       \/ Return(h)

Spec == Init /\ [][Next]_vars

\* ------------------------------------------------------------ claims: predict

WeightSum(w) == w.distance + w.time + w.speed

Verdict(h) == slot[h].pc = "responded" /\ slot[h].outcome = "verdict"

\* Every thread is between requests: each request received has ended.
Quiescent == \A h \in Handlers : slot[h].pc \in {"idle", "responded"}

StoredSamples ==
    IF store = <<>> \/ store[1].learning = <<>> THEN 0
    ELSE store[1].learning[1].samples

\* C1: after update_weights (the weights of a thread that has fetched) and
\* after apply_feedback (the weights of a thread that has adjusted), the
\* weights sum to 1.0 and each of the three is at least 0.05.
C1_WeightsSumToOneAboveFloor ==
    \A h \in Handlers :
        slot[h].pc \in {"fetched", "adjusted"} =>
            /\ WeightSum(slot[h].weights) = 1000
            /\ slot[h].weights.distance >= 50
            /\ slot[h].weights.time >= 50
            /\ slot[h].weights.speed >= 50

\* C2: the risk score a successful request computes, persists and returns lies
\* between 0.0 and 1.0.
C2_RiskWithinUnitInterval ==
    /\ \A h \in Handlers :
          (slot[h].pc = "persisted" \/ Verdict(h)) =>
              (0 <= slot[h].risk /\ slot[h].risk <= 100)
    /\ (store # <<>> /\ store[1].riskScore # <<>>) =>
          (0 <= store[1].riskScore[1] /\ store[1].riskScore[1] <= 100)

\* C3: a request that carries a feedback label apply_feedback has already
\* applied (its flag cleared, and not set again) gets no second correction:
\* its weights after apply_feedback are the weights update_weights gave it.
C3_FeedbackNotReplayed ==
    \A h \in Handlers :
        (slot[h].pc = "adjusted" /\ slot[h].replay) =>
            slot[h].weights = slot[h].nudged

\* C4: a request that obtains no patient record, or whose payload is
\* malformed, ends with the default verdict {riskScore: 0, riskLevel: normal},
\* raises nothing, writes nothing to the store and sends no push.
C4_DefaultVerdictWithoutPatient ==
    \A h \in Handlers :
        (slot[h].pc = "responded" /\ slot[h].outcome # "verdict") =>
            /\ slot[h].outcome = "default"
            /\ slot[h].risk = 0
            /\ slot[h].level = "normal"
            /\ slot[h].writes = 0
            /\ ~slot[h].pushed

\* C5 as claimed: once the requests received have ended, the stored samples
\* count is its initial value plus the number of requests that returned a
\* verdict, whether or not the requests interleaved.
C5_SamplesCountEveryRequest ==
    (Quiescent /\ store # <<>>) => StoredSamples = samples0 + completed

\* C5 as amended: the same, for requests none of which fetched the record
\* while another request was between its fetch and its persist.
C5_SamplesCountSequentialRequests ==
    (Quiescent /\ store # <<>> /\ ~overlapped) =>
        StoredSamples = samples0 + completed

C5_Witness ==
    /\ Quiescent
    /\ ~overlapped
    /\ completed = 2
    /\ samples0 = 4
    /\ StoredSamples = 6

\* C6: the triggerAlert of a verdict is true exactly when the caller's
\* prevRiskLevel is not "alert" and the new level is "alert".
C6_TriggerAlertOnTransition ==
    \A h \in Handlers :
        Verdict(h) =>
            /\ slot[h].level = Classify(slot[h].risk)
            /\ slot[h].triggerAlert =
                 <<(slot[h].prev # "alert" /\ slot[h].level = "alert")>>
            /\ slot[h].level \in {"normal", "warning"} =>
                 slot[h].triggerAlert = <<FALSE>>

C6_Witness ==
    \E h \in Handlers :
        /\ Verdict(h)
        /\ slot[h].prev = "warning"
        /\ slot[h].level = "alert"
        /\ slot[h].triggerAlert = <<TRUE>>

\* C8: for a record that starts with no learning state, after N requests one
\* after the other with speeds v_1..v_N the stored samples is N and the stored
\* avgSpeed times N is v_1 + ... + v_N.
C8_AvgSpeedIsMean ==
    (fresh /\ ~overlapped /\ persisted >= 1) =>
        /\ store[1].learning # <<>>
        /\ store[1].learning[1].samples = persisted
        /\ store[1].learning[1].avgSpeed[1] * persisted
             = sumSpeed * store[1].learning[1].avgSpeed[2]

C8_Witness ==
    /\ fresh
    /\ ~overlapped
    /\ persisted = 2
    /\ sumSpeed = 22
    /\ store[1].learning[1].avgSpeed = <<11, 1>>

\* ------------------------------------------------------------ calculate_risk alone

W(d, t, s) == [distance |-> d, time |-> t, speed |-> s]

\* The inputs of the spec's end-to-end scenario: distance 250, timeOutside 600,
\* speed 1.2, safeRadius 200, avgSpeed 1.0, weights 0.5/0.3/0.2, battery 100,
\* no rain, normal light, empty history, empty heatmap.
Scenario ==
    [sample |-> Sample(250, 600, 12, 125012, 775004, 100, FALSE, "normal", "none"),
     safe_radius |-> 200, avg_speed |-> <<10, 1>>, weights |-> W(500, 300, 200),
     history |-> <<>>, zone_map |-> <<>>]

\* Risk histories of zero to three entries.
Histories ==
    { <<>>,
      << <<1, 10>> >>,
      << <<1, 20>> >>,
      << <<1, 90>>, <<2, 10>> >>,
      << <<1, 10>>, <<2, 90>> >>,
      << <<1, 10>>, <<2, 20>> >>,
      << <<1, 100>>, <<2, 47>>, <<3, 20>> >> }

\* calculate_risk is called on the scenario, and on the handler's telemetry
\* and a walk far out at rest, under either safe radius, average speed and
\* weight vector, with each history and an empty or a visited heatmap.
RiskInputs ==
    {Scenario} \cup
    {[sample |-> sm, safe_radius |-> sr, avg_speed |-> av, weights |-> w,
      history |-> h, zone_map |-> zm] :
        sm \in Telemetry \cup
               {Sample(250, 0, 0, 125012, 775004, 100, FALSE, "normal", "none")},
        sr \in {5, 200}, av \in {<<10, 1>>, <<0, 1>>},
        w \in {W(500, 300, 200), DefaultWeights},
        h \in Histories,
        zm \in {<<>>, << <<<<12501, 77500>>, 2>> >>}}

\* The arguments of one call, at any hour of the day, before the call is made.
InitRisk ==
    /\ NoRequests
    /\ NoMaps
    /\ now = 0
    /\ \E in \in RiskInputs, hour \in 0..23 :
         calc = <<[in |-> in, hour |-> hour, called |-> FALSE,
                   base |-> [q |-> 0, f |-> 0, d |-> 1], trend |-> 0,
                   risk |-> 0, level |-> "none"]>>

\* The call of calculate_risk (lines 139-164) and the level predict derives
\* from its result (lines 263-267).
CalculateRisk ==
    /\ ~calc[1].called
    /\ LET in == calc[1].in
       IN  \E zk \in get_zone_key(in.sample.latitude, in.sample.longitude) :
             \E part \in RiskParts(in.sample.distance, in.sample.time_outside,
                           in.sample.speed, in.safe_radius, in.avg_speed,
                           in.weights, in.sample.battery, in.sample.isRaining,
                           in.sample.lightLevel, in.history, in.zone_map, zk,
                           calc[1].hour) :
               calc' = <<[calc[1] EXCEPT !.called = TRUE, !.base = part.base,
                                         !.trend = part.trend,
                                         !.risk = part.risk,
                                         !.level = Classify(part.risk)]>>
    /\ UNCHANGED <<handlerVars, now, mapVars>>

NextRisk == CalculateRisk

SpecRisk == InitRisk /\ [][NextRisk]_vars

\* C9: on the scenario's inputs the risk is above 0.8 and the level is "alert"
\* at every hour of the day.
C9_ScenarioIsAlert ==
    (calc # <<>> /\ calc[1].called /\ calc[1].in = Scenario) =>
        (calc[1].risk > 80 /\ calc[1].level = "alert")

C9_Witness ==
    /\ calc # <<>>
    /\ calc[1].called
    /\ calc[1].in = Scenario
    /\ calc[1].hour = 12
    /\ calc[1].risk = 82
    /\ calc[1].level = "alert"

\* The base risk exceeds the last recorded risk by more than 0.3.
ExceedsLast(c) ==
    LET last == c.in.history[Len(c.in.history)][2]
    IN  \/ c.base.q > last * 10 + 300
        \/ c.base.q = last * 10 + 300 /\ c.base.f > 0

\* C10 as claimed: with a history of one entry or more, a base risk more than
\* 0.3 above the last recorded risk gets the trend boost of 0.15.
C10_TrendBoostFromOneEntry ==
    (/\ calc # <<>> /\ calc[1].called
     /\ Len(calc[1].in.history) >= 1 /\ ExceedsLast(calc[1])) =>
        calc[1].trend = 15

\* C10 as amended: the same for a history of two entries or more; a history of
\* exactly one entry gets no trend boost.
C10_TrendBoostFromTwoEntries ==
    /\ (/\ calc # <<>> /\ calc[1].called
        /\ Len(calc[1].in.history) >= 2 /\ ExceedsLast(calc[1])) =>
          calc[1].trend = 15
    /\ (calc # <<>> /\ calc[1].called /\ Len(calc[1].in.history) = 1) =>
          calc[1].trend = 0

C10_Witness ==
    /\ calc # <<>>
    /\ calc[1].called
    /\ calc[1].in.history = << <<1, 90>>, <<2, 10>> >>
    /\ ExceedsLast(calc[1])
    /\ calc[1].trend = 15
    /\ calc[1].risk < 100

\* ------------------------------------------------------------ the two capped maps alone

\* Calls of update_risk_history and update_zone_heatmap in one run.
MaxCalls == 3

\* The clock when the first call is made, in seconds.
StartTime == 10

ZoneKey(i) == <<12500 + i, 77500>>

\* A risk history of n entries stamped with the n seconds up to last.
HistoryOf(n, last) == [i \in 1..n |-> <<last - n + i, 10 * i>>]

\* A heatmap of n zones visited once each.
HeatmapOf(n) == [i \in 1..n |-> <<ZoneKey(i), 1>>]

\* Starting histories: empty, within the cap, at the cap, above the cap, and
\* above the cap with stamps that run ahead of the clock.
StartHistories ==
    {HistoryOf(n, StartTime) : n \in {0, 4, 5, 7}} \cup
    {HistoryOf(HistoryCap + 1, StartTime + HistoryCap)}

\* Starting heatmaps: empty, below the cap, at the cap, above the cap.
StartHeatmaps == {HeatmapOf(n) : n \in {0, ZoneCap - 1, ZoneCap, ZoneCap + 1}}

InitMaps ==
    /\ NoRequests
    /\ NoCalc
    /\ now = StartTime
    /\ hist \in StartHistories
    /\ zmap \in StartHeatmaps
    /\ wrote = [op |-> "none", key |-> 0, value |-> 0, before |-> <<>>,
                calls |-> 0]

\* update_risk_history(history, risk) in the same second as the call before or
\* in the next one (time.time(), line 100).
WriteRisk ==
    /\ wrote.calls < MaxCalls
    /\ \E t \in {now, now + 1}, risk \in {0, 85} :
         /\ now' = t
         /\ hist' = update_risk_history(hist, t, risk)
         /\ wrote' = [op |-> "risk", key |-> t, value |-> risk,
                      before |-> hist, calls |-> wrote.calls + 1]
    /\ UNCHANGED <<zmap, handlerVars, calc>>

\* update_zone_heatmap(zone_map, key) on the oldest zone, the newest zone of a
\* map at the cap, or a zone never visited.
WriteZone ==
    /\ wrote.calls < MaxCalls
    /\ \E key \in {ZoneKey(1), ZoneKey(ZoneCap), ZoneKey(ZoneCap + 2)} :
         /\ zmap' = update_zone_heatmap(zmap, key)
         /\ wrote' = [op |-> "zone", key |-> key,
                      value |-> Get(zmap, key, 0) + 1,
                      before |-> zmap, calls |-> wrote.calls + 1]
    /\ UNCHANGED <<hist, now, handlerVars, calc>>

NextMaps == WriteRisk \/ WriteZone

SpecMaps == InitMaps /\ [][NextMaps]_vars

\* The map the last call returned, and its cap.
Written == IF wrote.op = "risk" THEN hist ELSE zmap

CapOf == IF wrote.op = "risk" THEN HistoryCap ELSE ZoneCap

\* The map the last call returned holds at most its cap.
WithinCap == Len(Written) <= CapOf

\* Whatever the last call dropped was inserted before everything it kept, and
\* what it kept of the other entries is unchanged.
DroppedOldest ==
    /\ \A i, j \in 1..Len(wrote.before) :
         (i < j /\ wrote.before[j][1] \notin Keys(Written)) =>
             wrote.before[i][1] \notin Keys(Written)
    /\ \A i \in 1..Len(Written) :
         \/ Written[i][1] = wrote.key
         \/ \E j \in 1..Len(wrote.before) : wrote.before[j] = Written[i]

\* The entry the last call wrote is in the map it returned.
Retained ==
    /\ wrote.key \in Keys(Written)
    /\ Get(Written, wrote.key, -1) = wrote.value

\* The key written was already in the map, more than cap - 1 entries from its
\* end (so the map the call was given exceeded the cap).
StaleKey ==
    \E i \in 1..Len(wrote.before) :
        /\ wrote.before[i][1] = wrote.key
        /\ Len(wrote.before) - i >= CapOf

\* C7 as claimed: after every call the map is within its cap, the entries
\* dropped are the oldest-inserted, and the entry just written is retained.
C7_CappedOldestDroppedWrittenKept ==
    wrote.op # "none" => (WithinCap /\ DroppedOldest /\ Retained)

\* C7 as amended: after every call the map is within its cap and the entries
\* dropped are the oldest-inserted; the entry just written is retained unless
\* its key was already in an oversized map more than cap - 1 entries from the
\* end, and then it is dropped with the oldest.
C7_WrittenKeptUnlessStale ==
    wrote.op # "none" =>
        (WithinCap /\ DroppedOldest /\ (Retained <=> ~StaleKey))

\* A heatmap at the cap took a new zone: the oldest zone went, the new stayed.
C7_Witness ==
    /\ wrote.op = "zone"
    /\ Len(wrote.before) = ZoneCap
    /\ wrote.key \notin Keys(wrote.before)
    /\ Len(zmap) = ZoneCap
    /\ ZoneKey(1) \notin Keys(zmap)
    /\ Retained

====
